---- MODULE Spec2Model ----
(***************************************************************************)
(* DemCoin game-theory simulator (src/simulator.py): the iterated          *)
(* best-response solver simulate_one_round and the grid search             *)
(* optimize_parameters of class DemCoinSimulator.                          *)
(*                                                                         *)
(* Numbers.  The code computes in floating point; the model computes the   *)
(* same expressions exactly, over integers:                                *)
(*   - skill and civic_interest are held in hundredths (skill 100 is 1.0), *)
(*     quality_threshold in hundredths of a quality point (700 is 7.0);    *)
(*   - every rate the code computes is 0 (line 85) or                      *)
(*     sum(participating) / num_citizens (line 106), so a rate is held as  *)
(*     its numerator n, standing for n / num_citizens;                     *)
(*   - a utility is held multiplied by 10 * num_citizens, which keeps its  *)
(*     sign and its order;                                                 *)
(*   - avg_quality and the optimizer's score are held as fractions         *)
(*     [num, den] with den > 0.                                            *)
(* Rounding can make a double-precision comparison differ from the exact   *)
(* one only where the exact utility is 0 at a rate above 0 with a bonus    *)
(* other than 0; running src/simulator.py on the populations and           *)
(* configurations enumerated below returns the results computed here.      *)
(*                                                                         *)
(* Control.  One thread runs main, simulate_one_round and                  *)
(* optimize_parameters; pc is its position and caller the frame that       *)
(* called simulate_one_round.  result is None while a call is running and  *)
(* holds the returned dict afterwards.                                     *)
(***************************************************************************)
EXTENDS Integers, Sequences, FiniteSets

VARIABLES
    citizens,            \* self.citizens: sequence of [skill, time_value, civic_interest]
    demcoin_per_hour,    \* self.demcoin_per_hour
    success_bonus,       \* self.success_bonus
    time_cost,           \* self.time_cost
    quality_threshold,   \* self.quality_threshold (hundredths)
    participation_rate,  \* simulate_one_round: participation_rate (numerator)
    participating,       \* simulate_one_round: participating
    iteration,           \* simulate_one_round: iteration (0-based loop variable)
    stop,                \* how the loop of simulate_one_round was left
    result,              \* the dict simulate_one_round returned last
    rate_ix,             \* optimize_parameters: position of demcoin_rate in its list
    bonus_ix,            \* optimize_parameters: position of bonus in its list
    best_params,         \* optimize_parameters: best_params
    best_score,          \* optimize_parameters: best_score
    caller,              \* who called simulate_one_round: "main" or "optimize"
    pc                   \* position of the single thread of control

vars == <<citizens, demcoin_per_hour, success_bonus, time_cost, quality_threshold,
          participation_rate, participating, iteration, stop, result,
          rate_ix, bonus_ix, best_params, best_score, caller, pc>>

config == <<demcoin_per_hour, success_bonus, time_cost, quality_threshold>>
solver == <<participation_rate, participating, iteration, stop>>
sweep  == <<rate_ix, bonus_ix, best_params, best_score>>

(***************************************************************************)
(* Bounds of the model and constants of the program.                       *)
(***************************************************************************)
MaxHead == 2
Block == 1000

max_iterations == 20
ToleranceDen == 1000
QualityFactor == 8
CivicFactor == 20

\* Python's None, and -float('inf') as a fraction below every score.
None == [none |-> TRUE]
NegInf == [num |-> -1, den |-> 0]

Skills == {50, 100}
TimeValues == {10, 15, 25}
CivicInterests == {0, 100}
Agents == [skill : Skills, time_value : TimeValues, civic_interest : CivicInterests]

DemcoinChoices == {0, 15, 25}
BonusChoices == {-100, -75, 0, 100}
TimeCostChoices == {1, 3}
ThresholdChoices == {700}

DemcoinRates == <<10, 15, 20, 25>>
Bonuses == <<50, 100, 150, 200>>

num_citizens == Len(citizens)

Config == [demcoin_per_hour |-> demcoin_per_hour, success_bonus |-> success_bonus,
           time_cost |-> time_cost, quality_threshold |-> quality_threshold]

Abs(x) == IF x < 0 THEN -x ELSE x
Max(a, b) == IF a >= b THEN a ELSE b

(***************************************************************************)
(* The utility model.                                                      *)
(***************************************************************************)
\* citizen['skill'] * 8, in hundredths.
quality_score(citizen) == citizen.skill * QualityFactor

immediate_reward(cfg, citizen) ==
    IF quality_score(citizen) >= cfg.quality_threshold
    THEN cfg.demcoin_per_hour * cfg.time_cost
    ELSE 0

\* Variant of prob_success in which success gets less likely as participation
\* grows (0.3 - participation_rate * 0.6).
prob_success_falling(rate) == 3 * num_citizens - rate * 6

\* 0.3 + participation_rate * 0.6, times 10 * num_citizens.
prob_success(rate) == 3 * num_citizens + rate * 6

\* prob_success * self.success_bonus, times 10 * num_citizens.
expected_bonus(cfg, rate) == prob_success(rate) * cfg.success_bonus

\* Variant of time_cost_euros that leaves out the hours spent.
time_cost_euros_flat(cfg, citizen) == citizen.time_value

time_cost_euros(cfg, citizen) == citizen.time_value * cfg.time_cost

\* citizen['civic_interest'] * 20, times 10 * num_citizens.
civic_motivation(citizen) == (citizen.civic_interest * CivicFactor * num_citizens) \div 10

\* total_utility, times 10 * num_citizens.
utility_study(cfg, citizen, rate) ==
    10 * num_citizens * immediate_reward(cfg, citizen)
    + expected_bonus(cfg, rate)
    - 10 * num_citizens * time_cost_euros(cfg, citizen)
    + civic_motivation(citizen)

calculate_utility_study(citizen, rate) == utility_study(Config, citizen, rate)

calculate_utility_ignore(citizen) == 0

(***************************************************************************)
(* The pieces of simulate_one_round.                                       *)
(***************************************************************************)
\* Variant of should_participate in which an indifferent agent participates (>=).
should_participate_or_tie(cfg, citizen, rate) ==
    utility_study(cfg, citizen, rate) >= calculate_utility_ignore(citizen)

should_participate(cfg, citizen, rate) ==
    utility_study(cfg, citizen, rate) > calculate_utility_ignore(citizen)

\* One pass of the inner loop: every agent answers the same rate; an entry
\* that differs from should_participate is overwritten, so every entry ends
\* equal to it.
BestResponse(cfg, rate) ==
    [i \in 1..num_citizens |-> should_participate(cfg, citizens[i], rate)]

\* sum(participating)
Count(p) == Cardinality({i \in DOMAIN p : p[i]})

\* Variant of WithinTolerance without abs().
WithinToleranceSigned(new_rate, rate) == (new_rate - rate) * ToleranceDen < num_citizens

\* abs(new_rate - participation_rate) < 0.001, both over num_citizens.
WithinTolerance(new_rate, rate) == Abs(new_rate - rate) * ToleranceDen < num_citizens

\* The sum of skill * 8 over the agents marked in p, in hundredths, added up
\* one skill value at a time.
RECURSIVE SumBySkill(_, _)
SumBySkill(S, p) ==
    IF S = {} THEN 0
    ELSE LET s == CHOOSE x \in S : TRUE
         IN  s * QualityFactor * Cardinality({i \in DOMAIN p : p[i] /\ citizens[i].skill = s})
             + SumBySkill(S \ {s}, p)

SumQuality(p) == SumBySkill({citizens[i].skill : i \in DOMAIN p}, p)

\* Variant of RoundResult whose quality sum runs over every agent, marked or not.
RoundResultAll(p, rate, it) ==
    [participation_rate  |-> rate * 100,
     num_participating   |-> Count(p),
     avg_quality         |-> [num |-> SumQuality([i \in DOMAIN p |-> TRUE]),
                              den |-> Max(Count(p), 1)],
     converged_iteration |-> it + 1]

\* The returned dict; participation_rate is a percentage over num_citizens,
\* avg_quality a fraction in hundredths.
RoundResult(p, rate, it) ==
    [participation_rate  |-> rate * 100,
     num_participating   |-> Count(p),
     avg_quality         |-> [num |-> SumQuality(p), den |-> Max(Count(p), 1)],
     converged_iteration |-> it + 1]

\* The whole call as a function of the configuration: the loop from
\* participation_rate = 0 with nobody participating.
RECURSIVE Loop(_, _, _)
Loop(cfg, rate, it) ==
    LET p == BestResponse(cfg, rate)
        new_rate == Count(p)
    IN  IF WithinTolerance(new_rate, rate) \/ it + 1 = max_iterations
        THEN RoundResult(p, new_rate, it)
        ELSE Loop(cfg, new_rate, it + 1)

FreshRound(cfg) == Loop(cfg, 0, 0)

(***************************************************************************)
(* simulate_one_round, step by step.                                       *)
(***************************************************************************)
\* Variant of Begin in which a call starts from the rate and the assignment the
\* call before it ended with.
BeginStale ==
    /\ participation_rate' = participation_rate
    /\ participating' = IF participating = <<>>
                        THEN [i \in 1..num_citizens |-> FALSE]
                        ELSE participating
    /\ iteration' = 0
    /\ stop' = "none"
    /\ result' = None
    /\ pc' = "pass"

\* Lines 85-90: the locals of a call.
Begin ==
    /\ participation_rate' = 0
    /\ participating' = [i \in 1..num_citizens |-> FALSE]
    /\ iteration' = 0
    /\ stop' = "none"
    /\ result' = None
    /\ pc' = "pass"

CallSimulate ==
    /\ pc = "idle"
    /\ caller' = "main"
    /\ Begin
    /\ UNCHANGED <<citizens, config, sweep>>

\* Lines 93-103.
Pass ==
    /\ pc = "pass"
    /\ participating' = BestResponse(Config, participation_rate)
    /\ pc' = "rate"
    /\ UNCHANGED <<citizens, config, participation_rate, iteration, stop, result,
                   sweep, caller>>

\* Lines 106-111: the tolerance test succeeds.
Converge ==
    /\ pc = "rate"
    /\ LET new_rate == Count(participating)
       IN  /\ WithinTolerance(new_rate, participation_rate)
           /\ participation_rate' = new_rate
    /\ stop' = "tolerance"
    /\ pc' = "results"
    /\ UNCHANGED <<citizens, config, participating, iteration, result, sweep, caller>>

\* Lines 106-113, and the loop goes on.
NextIteration ==
    /\ pc = "rate"
    /\ iteration + 1 < max_iterations
    /\ LET new_rate == Count(participating)
       IN  /\ ~WithinTolerance(new_rate, participation_rate)
           /\ participation_rate' = new_rate
    /\ iteration' = iteration + 1
    /\ pc' = "pass"
    /\ UNCHANGED <<citizens, config, participating, stop, result, sweep, caller>>

\* Lines 106-113, and range(max_iterations) is exhausted.
Exhaust ==
    /\ pc = "rate"
    /\ iteration + 1 = max_iterations
    /\ LET new_rate == Count(participating)
       IN  /\ ~WithinTolerance(new_rate, participation_rate)
           /\ participation_rate' = new_rate
    /\ stop' = "cap"
    /\ pc' = "results"
    /\ UNCHANGED <<citizens, config, participating, iteration, result, sweep, caller>>

\* Lines 116-128.
Results ==
    /\ pc = "results"
    /\ result' = RoundResult(participating, participation_rate, iteration)
    /\ pc' = IF caller = "main" THEN "idle" ELSE "score"
    /\ UNCHANGED <<citizens, config, solver, sweep, caller>>

(***************************************************************************)
(* optimize_parameters.                                                    *)
(***************************************************************************)
demcoin_rate == DemcoinRates[rate_ix]
bonus == Bonuses[bonus_ix]

\* cost = result['num_participating'] * self.time_cost * demcoin_rate
cost(res, tc, rate) == res.num_participating * tc * rate

\* score = result['participation_rate'] * result['avg_quality'] - cost / 1000,
\* as a fraction of units of 1 / (1000 * num_citizens): the percentage is
\* over num_citizens and the quality in hundredths, so the product is
\* participation_rate * num * 10 / den units, and cost / 1000 is
\* cost * num_citizens units.
score_of(res, tc, rate) ==
    [num |-> res.participation_rate * res.avg_quality.num * 10
             - cost(res, tc, rate) * num_citizens * res.avg_quality.den,
     den |-> res.avg_quality.den]

\* a > b for fractions; b may be NegInf
Greater(a, b) == a.num * b.den > b.num * a.den

\* Variant of is_better that also replaces on an equal score (>=).
is_better_or_equal(score, best) == ~Greater(best, score)

\* score > best_score
is_better(score, best) == Greater(score, best)

\* Lines 147-156.
KeepBest ==
    LET score == score_of(result, time_cost, demcoin_rate)
    IN  IF is_better(score, best_score)
        THEN /\ best_score' = score
             /\ best_params' = [demcoin_per_hour |-> demcoin_rate,
                                success_bonus |-> bonus,
                                result |-> result]
        ELSE UNCHANGED <<best_score, best_params>>

\* Lines 134-144, up to the first call of simulate_one_round.
CallOptimize ==
    /\ pc = "idle"
    /\ best_params' = None
    /\ best_score' = NegInf
    /\ rate_ix' = 1
    /\ bonus_ix' = 1
    /\ demcoin_per_hour' = DemcoinRates[1]
    /\ success_bonus' = Bonuses[1]
    /\ caller' = "optimize"
    /\ Begin
    /\ UNCHANGED <<citizens, time_cost, quality_threshold>>

\* Lines 147-156, then the next combination of the two loops (lines 138-144).
NextCombination ==
    /\ pc = "score"
    /\ ~(rate_ix = Len(DemcoinRates) /\ bonus_ix = Len(Bonuses))
    /\ KeepBest
    /\ rate_ix' = IF bonus_ix = Len(Bonuses) THEN rate_ix + 1 ELSE rate_ix
    /\ bonus_ix' = IF bonus_ix = Len(Bonuses) THEN 1 ELSE bonus_ix + 1
    /\ demcoin_per_hour' = DemcoinRates[rate_ix']
    /\ success_bonus' = Bonuses[bonus_ix']
    /\ Begin
    /\ UNCHANGED <<citizens, time_cost, quality_threshold, caller>>

\* Variant of ReturnBest that writes the best combination back to the live
\* configuration before returning.
ReturnBestRestoring ==
    /\ pc = "score"
    /\ rate_ix = Len(DemcoinRates)
    /\ bonus_ix = Len(Bonuses)
    /\ KeepBest
    /\ demcoin_per_hour' = best_params'.demcoin_per_hour
    /\ success_bonus' = best_params'.success_bonus
    /\ result' = None
    /\ caller' = "main"
    /\ pc' = "idle"
    /\ UNCHANGED <<citizens, time_cost, quality_threshold, solver, rate_ix, bonus_ix>>

\* Lines 147-158 for the last combination: the loops end and best_params is
\* returned; the locals of the call are gone.
ReturnBest ==
    /\ pc = "score"
    /\ rate_ix = Len(DemcoinRates)
    /\ bonus_ix = Len(Bonuses)
    /\ KeepBest
    /\ result' = None
    /\ caller' = "main"
    /\ pc' = "idle"
    /\ UNCHANGED <<citizens, config, solver, rate_ix, bonus_ix>>

(***************************************************************************)
(* Construction.                                                           *)
(***************************************************************************)
Heads == UNION {[1..n -> Agents] : n \in 1..MaxHead}

Crowd(a, m) == [i \in 1..m |-> a]

Constructed ==
    /\ demcoin_per_hour \in DemcoinChoices
    /\ success_bonus \in BonusChoices
    /\ time_cost \in TimeCostChoices
    /\ quality_threshold \in ThresholdChoices
    /\ participation_rate = 0
    /\ participating = <<>>
    /\ iteration = 0
    /\ stop = "none"
    /\ result = None
    /\ rate_ix = 1
    /\ bonus_ix = 1
    /\ best_params = None
    /\ best_score = NegInf
    /\ caller = "main"
    /\ pc = "idle"

Init ==
    /\ citizens \in Heads
    /\ Constructed

\* One agent followed by a block of agents of equal traits, under the
\* constructor's default time_cost and quality_threshold.
Crowds == {<<h>> \o Crowd(a, Block) : h \in Agents, a \in Agents}

InitCrowd ==
    /\ citizens \in Heads \cup Crowds
    /\ Constructed
    /\ citizens \in Crowds => time_cost = 3 /\ quality_threshold = 700

NextRound ==
    \/ CallSimulate
    \/ Pass
    \/ Converge
    \/ NextIteration
    \/ Exhaust
    \/ Results

RoundSpec == InitCrowd /\ [][NextRound]_vars

Next ==
    \/ CallSimulate
    \/ Pass
    \/ Converge
    \/ NextIteration
    \/ Exhaust
    \/ Results
    \/ CallOptimize
    \/ NextCombination
    \/ ReturnBest

Spec == Init /\ [][Next]_vars

(***************************************************************************)
(* Properties.                                                             *)
(***************************************************************************)

\* C1: the returned count equals the number of agents whose utility of
\* studying, evaluated at the returned rate, exceeds the utility of ignoring
\* (self-consistency of the returned fixed point), on every exit path.
C1_SelfConsistent ==
    result # None =>
        result.num_participating =
            Cardinality({i \in 1..num_citizens :
                calculate_utility_study(citizens[i], result.participation_rate \div 100)
                    > calculate_utility_ignore(citizens[i])})

\* C2: the sweep returns one record from the grid whose result is the one its
\* combination produces, whose score is not below the score of any of the 16
\* combinations solved on their own, and which beats strictly every
\* combination visited before it (the first of equal maxima is kept).
C2_GridSearchBest ==
    (caller = "main" /\ best_params # None) =>
        LET Rates == {10, 15, 20, 25}
            Boni == {50, 100, 150, 200}
            Alone(d, b) ==
                FreshRound([demcoin_per_hour |-> d, success_bonus |-> b,
                            time_cost |-> time_cost,
                            quality_threshold |-> quality_threshold])
            Score(d, b) == score_of(Alone(d, b), time_cost, d)
            bd == best_params.demcoin_per_hour
            bb == best_params.success_bonus
        IN  /\ bd \in Rates
            /\ bb \in Boni
            /\ best_params.result = Alone(bd, bb)
            /\ \A d \in Rates, b \in Boni :
                /\ ~Greater(Score(d, b), Score(bd, bb))
                /\ (d < bd \/ (d = bd /\ b < bb)) => Greater(Score(bd, bb), Score(d, b))

C2_Witness ==
    /\ caller = "main"
    /\ best_params # None
    /\ pc = "idle"
    /\ LET Score(d, b) ==
               score_of(FreshRound([demcoin_per_hour |-> d, success_bonus |-> b,
                                    time_cost |-> time_cost,
                                    quality_threshold |-> quality_threshold]),
                        time_cost, d)
           bd == best_params.demcoin_per_hour
           bb == best_params.success_bonus
       IN  /\ <<bd, bb>> # <<10, 50>>
           /\ \E b \in {50, 100, 150, 200} :
                /\ b > bb
                /\ ~Greater(Score(bd, bb), Score(bd, b))

\* C3: every call of simulate_one_round returns what a solve from scratch
\* (rate 0, nobody participating) returns for the population and the four
\* configuration values in force, whatever calls came before; so two calls
\* under equal values return equal results.
C3_Idempotent == result # None => result = FreshRound(Config)

C3_Witness ==
    /\ caller = "main"
    /\ pc = "idle"
    /\ best_params # None
    /\ result # None
    /\ result.num_participating > 0
    /\ result.converged_iteration > 1

\* C4: for bonuses b1 <= b2 and everything else equal, the rate returned
\* under b2 is at least the rate returned under b1.
C4_BonusMonotone ==
    result # None =>
        \A b \in BonusChoices :
            LET other == FreshRound([Config EXCEPT !.success_bonus = b]).participation_rate
            IN  /\ b <= success_bonus => other <= result.participation_rate
                /\ b >= success_bonus => other >= result.participation_rate

\* C5: a call runs 1 to 20 iterations; an iteration whose new rate is within
\* 0.001 of the rate it started from ends the loop, any other iteration but
\* the 20th is followed by the next, and the 20th ends the loop in any case;
\* converged_iteration is the number of iterations run, below 20 only after
\* the tolerance test succeeded, and a call stopped by the cap reports 20
\* with the rate of its last iteration.
C5_StoppingRule ==
    /\ [](iteration \in 0..19)
    /\ [](stop = "cap" => iteration = 19)
    /\ [](result # None =>
            /\ result.converged_iteration = iteration + 1
            /\ result.converged_iteration \in 1..20
            /\ result.converged_iteration < 20 => stop = "tolerance"
            /\ stop = "cap" =>
                 /\ result.converged_iteration = 20
                 /\ result.participation_rate = 100 * Count(participating))
    /\ [][pc = "rate" =>
            LET new_rate == Count(participating)
                close == Abs(new_rate - participation_rate) * 1000 < num_citizens
            IN  /\ participation_rate' = new_rate
                /\ close => pc' = "results" /\ stop' = "tolerance" /\ iteration' = iteration
                /\ (~close /\ iteration < 19) =>
                       pc' = "pass" /\ stop' = "none" /\ iteration' = iteration + 1
                /\ (~close /\ iteration = 19) =>
                       pc' = "results" /\ stop' = "cap" /\ iteration' = iteration]_vars

C5_Witness ==
    /\ result # None
    /\ stop = "cap"
    /\ result.converged_iteration = 20

\* C6: once optimize_parameters has returned, the live configuration holds
\* the last grid point, 25 and 200, whatever the returned best is; and no
\* step changes time_cost, quality_threshold or the population.
C6_PostSweepConfiguration ==
    /\ []((caller = "main" /\ best_params # None) =>
            demcoin_per_hour = 25 /\ success_bonus = 200)
    /\ [][/\ time_cost' = time_cost
          /\ quality_threshold' = quality_threshold
          /\ citizens' = citizens]_vars

C6_Witness ==
    /\ caller = "main"
    /\ pc = "idle"
    /\ best_params # None
    /\ best_params.demcoin_per_hour # 25
    /\ best_params.success_bonus # 200

\* C7: with success_bonus = 0 and demcoin_per_hour = 0, an agent counted as
\* participating has civic_interest * 20 > time_value * time_cost; the others
\* end as ignore.
C7_ZeroIncentive ==
    (result # None /\ success_bonus = 0 /\ demcoin_per_hour = 0) =>
        LET keen == {i \in 1..num_citizens :
                        citizens[i].civic_interest * 20
                            > citizens[i].time_value * time_cost * 100}
        IN  /\ \A i \in 1..num_citizens : participating[i] => i \in keen
            /\ result.num_participating <= Cardinality(keen)

C7_Witness ==
    /\ result # None
    /\ success_bonus = 0
    /\ demcoin_per_hour = 0
    /\ \E i \in 1..num_citizens : participating[i]
    /\ \E i \in 1..num_citizens : ~participating[i]

\* C8: the returned dict summarises the assignment the loop ended with: the
\* count of marked agents, 100 times that count over the population size
\* (so between 0 and 100), and the mean of skill * 8 over the marked agents,
\* 0 when there is none.
C8_FaithfulSummary ==
    result # None =>
        LET marked == {i \in 1..num_citizens : participating[i]}
        IN  /\ result.num_participating = Cardinality(marked)
            /\ result.participation_rate = 100 * Cardinality(marked)
            /\ result.participation_rate >= 0
            /\ result.participation_rate <= 100 * num_citizens
            /\ IF marked = {}
               THEN result.avg_quality.num = 0 /\ result.avg_quality.den = 1
               ELSE /\ result.avg_quality.den = Cardinality(marked)
                    /\ result.avg_quality.num = SumQuality(participating)

C8_Witness ==
    /\ result # None
    /\ result.num_participating > 0
    /\ result.num_participating < num_citizens
    /\ \E i, j \in 1..num_citizens :
          participating[i] /\ ~participating[j] /\ citizens[i].skill # citizens[j].skill

\* C9: when a pass over the agents ends, each agent participates exactly if
\* its utility of studying at the rate the pass started from (still held in
\* participation_rate) is above 0; an agent at exactly 0 ignores.
C9_SimultaneousBestResponse ==
    pc = "rate" =>
        \A i \in 1..num_citizens :
            participating[i] <=> calculate_utility_study(citizens[i], participation_rate) > 0

C9_Witness ==
    /\ pc = "rate"
    /\ iteration >= 1
    /\ participation_rate > 0
    /\ \E i \in 1..num_citizens :
          /\ calculate_utility_study(citizens[i], participation_rate) = 0
          /\ ~participating[i]
    /\ \E i \in 1..num_citizens : participating[i]

\* C10: with success_bonus >= 0, a pass never turns a participating agent
\* back to ignore, so the rate never falls within a call; an iteration that
\* does not meet the tolerance strictly raises the rate, and the cap is
\* reached only after 20 such iterations, which takes at least 20 agents.
C10_MonotoneDynamics ==
    /\ [][(success_bonus >= 0 /\ pc = "pass") =>
            \A i \in 1..num_citizens : participating[i] => participating'[i]]_vars
    /\ [][(success_bonus >= 0 /\ pc = "rate") =>
            /\ participation_rate' >= participation_rate
            /\ (pc' = "pass" \/ stop' = "cap") => participation_rate' > participation_rate]_vars
    /\ []((success_bonus >= 0 /\ stop = "cap") => num_citizens >= 20)

C10_Witness ==
    /\ success_bonus >= 0
    /\ pc = "rate"
    /\ iteration >= 1
    /\ participation_rate > 0
    /\ Count(participating) > participation_rate

====
